---- MODULE Spec2Model ----
(***************************************************************************)
(* Model of the prayer-time core of praye.rs:                              *)
(*   src/src/dmath.rs      fix, fix_hour, fix_angle                        *)
(*   src/src/astronomy.rs  get_julian_day, mid_day, sun_angle_time         *)
(*   src/src/prayer.rs     CalculationMethod, PrayerManager                *)
(*                                                                         *)
(* Numbers.  The code computes in f64.  A value is modelled as an integer  *)
(* number of ticks, One ticks making 1.0 (one hour, one degree); NaN is a  *)
(* reserved value outside the range of every finite quantity, and every    *)
(* arithmetic operator propagates it while every comparison with it is     *)
(* false, as in IEEE-754.  The finite inputs of get_times are drawn from   *)
(* a whole-hour grid on which sums, differences and the products of        *)
(* night_portion are exact; the one addition of fix is rounded to          *)
(* Precision significant bits (round to nearest, ties to even), a scaled   *)
(* down f64 significand.  Method parameters (angles in degrees, offsets    *)
(* in minutes) are held in tenths, so 19.5 is 195.                         *)
(*                                                                         *)
(* The trigonometry of sun_position and of the hour-angle formula is not   *)
(* computed: the equation of time and the hour angle t of each event are   *)
(* inputs of get_times, drawn from EqtSet and from the hour-angle sets,    *)
(* NaN standing for "no solution at this latitude".  One equation of time  *)
(* serves all the events of a day; the hour angles are independent.        *)
(***************************************************************************)
EXTENDS Integers, FiniteSets, Sequences, TLC

VARIABLES
    method,     \* PrayerManager.method     (prayer.rs:197)
    high_lats,  \* PrayerManager.high_lats  (prayer.rs:198), an Option
    query,      \* the date and coordinates passed to get_times, as what the
                \* solar formulas make of them (see Inputs)
    times,      \* Some(the PrayerTimes returned by get_times), None before the call
    date1,      \* a date passed to get_julian_day
    jd1,        \* Some(the result for date1), None before the call
    date2,      \* a second date passed to get_julian_day
    jd2,        \* Some(the result for date2), None before the call
    fx_in,      \* the argument of fix_hour / fix_angle
    fx_out      \* Some(<<function, result>>), None before the call

vars == <<method, high_lats, query, times, date1, jd1, date2, jd2, fx_in, fx_out>>

---------------------------------------------------------------------------
(* f64 values *)

\* ticks in 1.0: 16 * 16800, so that /2, /7, /60 and tenths/600 of a whole hour are whole
One == 16 * 16800

\* significand width of the modelled floating-point format
Precision == 20

NaN == 0 - 2^30

IsNaN(x) == x = NaN

Add(a, b) == IF IsNaN(a) \/ IsNaN(b) THEN NaN ELSE a + b

Sub(a, b) == IF IsNaN(a) \/ IsNaN(b) THEN NaN ELSE a - b

Neg(a) == IF IsNaN(a) THEN NaN ELSE 0 - a

\* a / 2.0
Half(a) == IF IsNaN(a) THEN NaN ELSE a \div 2

\* a > b on f64: false when either side is NaN
Gt(a, b) == ~IsNaN(a) /\ ~IsNaN(b) /\ a > b

Lt(a, b) == Gt(b, a)

Le(a, b) == ~IsNaN(a) /\ ~IsNaN(b) /\ a <= b

\* v / 60.0 where v is held in tenths (minutes -> hours, or the 1/60 * angle factor)
Sixtieth(v) == v * (One \div 600)

\* round to nearest representable value, ties to even
Round(x) ==
    IF IsNaN(x) THEN NaN
    ELSE LET a  == IF x < 0 THEN 0 - x ELSE x
             e  == CHOOSE k \in 0..(30 - Precision) :
                       /\ a < 2^(Precision + k)
                       /\ (k = 0 \/ a >= 2^(Precision + k - 1))
             q  == 2^e
             r  == a % q
             lo == a - r
             up == IF 2 * r > q \/ (2 * r = q /\ (lo \div q) % 2 = 1)
                   THEN lo + q ELSE lo
         IN  IF x < 0 THEN 0 - up ELSE up

\* the f64 remainder a % b: exact, with the sign of the dividend
Rem(a, b) ==
    IF IsNaN(a) THEN NaN
    ELSE IF a >= 0 THEN a % b ELSE 0 - ((0 - a) % b)

---------------------------------------------------------------------------
(* dmath.rs *)

fix(a, b) ==
    LET fixed == Rem(a, b)
    IN  IF Lt(fixed, 0) THEN Round(Add(fixed, b)) ELSE fixed

fix_angle(angle) == fix(angle, 360 * One)

fix_hour(hour) == fix(hour, 24 * One)

---------------------------------------------------------------------------
(* astronomy.rs *)

\* get_julian_day without the shift of January and February into the previous year
get_julian_day_unshifted(date) ==
    LET floor == 365 * date.year + 30 * date.month
                 + ((2425 * date.year + 6001 * date.month) \div 10000)
    IN  2 * (floor + date.day) + 3442055

\* A chrono Date<Utc> is a record [year, month, day].  The result is held in
\* half days (2451544.5 is 4903089).  floor(365.2425*y + 30.6001*m) is taken
\* on the exact decimal value, 365*y + 30*m + floor((2425*y + 6001*m)/10000).
get_julian_day(date) ==
    LET shift == date.month < 3
        year  == IF shift THEN date.year - 1 ELSE date.year
        month == IF shift THEN date.month + 12 ELSE date.month
        floor == 365 * year + 30 * month + ((2425 * year + 6001 * month) \div 10000)
    IN  2 * (floor + date.day) + 3442055

\* eqt is sun_position(julian_date + time).1
mid_day(eqt) == fix_hour(Sub(12 * One, eqt))

\* eqt is sun_position(julian_date + time).1 and t the hour angle
\* 1/15 * arccos(...), NaN when the arccos argument is out of [-1, 1]
sun_angle_time(eqt, t, ccw) ==
    Add(fix_hour(Sub(12 * One, eqt)), IF ccw THEN Neg(t) ELSE t)

---------------------------------------------------------------------------
(* prayer.rs: calculation methods *)

Angle(v) == [kind |-> "Angle", v |-> v]

Minutes(v) == [kind |-> "Minutes", v |-> v]

unwrap(c) == c.v

\* Option<T>: None is the empty tuple, Some(x) the one-element tuple
None == <<>>

Some(x) == <<x>>

\* Option::unwrap_or
OrElse(opt, default) == IF opt = None THEN default ELSE opt[1]

\* CalculationMethod::new with a default Imsak of 15 minutes
CalculationMethod_new_imsak15(imsak, fajr, asr, maghrib, isha, midnight) ==
    [ imsak    |-> OrElse(imsak, Minutes(150)),
      fajr     |-> fajr,
      dhuhr    |-> 0,
      asr      |-> OrElse(asr, "Standard"),
      maghrib  |-> OrElse(maghrib, Minutes(0)),
      isha     |-> isha,
      midnight |-> OrElse(midnight, "Standard") ]

CalculationMethod_new(imsak, fajr, asr, maghrib, isha, midnight) ==
    [ imsak    |-> OrElse(imsak, Minutes(100)),
      fajr     |-> fajr,
      dhuhr    |-> 0,
      asr      |-> OrElse(asr, "Standard"),
      maghrib  |-> OrElse(maghrib, Minutes(0)),
      isha     |-> isha,
      midnight |-> OrElse(midnight, "Standard") ]

CalculationMethod_from(fajr, isha) ==
    CalculationMethod_new(None, fajr, None, None, isha, None)

\* the Custom(...) parameter sets of the model: the two of the documentation
\* (prayer.rs:113-121), one with a negative Fajr angle, one with an
\* angle-based Imsak and a minutes-based Maghrib, and one with angles of 60
\* and 90 degrees
CustomMethods ==
    { CalculationMethod_from(120, Angle(130)),
      CalculationMethod_new(None, 130, None, Some(Angle(60)), Angle(130), Some("Jafari")),
      CalculationMethod_from(0 - 50, Angle(170)),
      CalculationMethod_new(Some(Angle(200)), 180, Some("Hanafi"), Some(Minutes(50)),
                            Angle(170), None),
      CalculationMethod_new(Some(Angle(900)), 600, None, Some(Angle(600)), Angle(900), None) }

CalculationMethods ==
    { [name |-> n] : n \in {"MWL", "ISNA", "Egypt", "Karachi", "Tehran", "Jafari", "MF"} }
    \cup { [name |-> "Makkah", is_ramadan |-> b] : b \in BOOLEAN }
    \cup { [name |-> "Custom", value |-> c] : c \in CustomMethods }

get_calculation_method(calculation_method) ==
    CASE calculation_method.name = "MWL"     -> CalculationMethod_from(180, Angle(170))
      [] calculation_method.name = "ISNA"    -> CalculationMethod_from(150, Angle(150))
      [] calculation_method.name = "Egypt"   -> CalculationMethod_from(195, Angle(175))
      [] calculation_method.name = "Makkah"  ->
            CalculationMethod_from(185,
                Minutes(IF calculation_method.is_ramadan THEN 1200 ELSE 900))
      [] calculation_method.name = "Karachi" -> CalculationMethod_from(180, Angle(180))
      [] calculation_method.name = "Tehran"  ->
            CalculationMethod_new(None, 177, None, Some(Angle(45)), Angle(140), Some("Jafari"))
      [] calculation_method.name = "Jafari"  ->
            CalculationMethod_new(None, 160, None, Some(Angle(40)), Angle(140), Some("Jafari"))
      [] calculation_method.name = "MF"      -> CalculationMethod_from(120, Angle(120))
      [] calculation_method.name = "Custom"  -> calculation_method.value

HightLatMethods == {"NightMiddle", "AngleBased", "OneSeventh"}

PrayerManager_new(m, hl) ==
    [method |-> get_calculation_method(m), high_lats |-> hl]

---------------------------------------------------------------------------
(* prayer.rs: get_times *)

time_diff(time1, time2) == fix_hour(Sub(time2, time1))

\* night_portion with the whole night for NightMiddle
night_portion_whole(self, angle, night) ==
    IF IsNaN(night) THEN NaN
    ELSE CASE self.high_lats[1] = "NightMiddle" -> night
           [] self.high_lats[1] = "AngleBased"  -> angle * (night \div 600)
           [] self.high_lats[1] = "OneSeventh"  -> night \div 7

\* angle is in tenths of a degree; night is a whole number of hours or NaN
night_portion(self, angle, night) ==
    IF IsNaN(night) THEN NaN
    ELSE CASE self.high_lats[1] = "NightMiddle" -> night \div 2
           [] self.high_lats[1] = "AngleBased"  -> angle * (night \div 600)
           [] self.high_lats[1] = "OneSeventh"  -> night \div 7

\* adjust_highlat_time keeping the time when portion < diff
adjust_highlat_time_inverted(self, time, base, angle, night, ccw) ==
    LET portion == night_portion(self, angle, night)
        diff    == IF ccw THEN time_diff(time, base) ELSE time_diff(base, time)
    IN  IF Lt(portion, diff) THEN time
        ELSE Add(base, IF ccw THEN Neg(portion) ELSE portion)

\* adjust_highlat_time with the sign of the portion exchanged
adjust_highlat_time_flipped(self, time, base, angle, night, ccw) ==
    LET portion == night_portion(self, angle, night)
        diff    == IF ccw THEN time_diff(time, base) ELSE time_diff(base, time)
    IN  IF Gt(portion, diff) THEN time
        ELSE Add(base, IF ccw THEN portion ELSE Neg(portion))

adjust_highlat_time(self, time, base, angle, night, ccw) ==
    LET portion == night_portion(self, angle, night)
        diff    == IF ccw THEN time_diff(time, base) ELSE time_diff(base, time)
    IN  IF Gt(portion, diff) THEN time
        ELSE Add(base, IF ccw THEN Neg(portion) ELSE portion)

\* prayer.rs:254-302: the solved times.  in.eqt, in.adjust and the hour angles
\* in.t_* stand for the results of sun_position and of the arccos formula.
solve(self, in) ==
    [ imsak   |-> Sub(sun_angle_time(in.eqt, in.t_imsak, TRUE), in.adjust),
      fajr    |-> Sub(sun_angle_time(in.eqt, in.t_fajr, TRUE), in.adjust),
      sunrise |-> Sub(sun_angle_time(in.eqt, in.t_sunrise, TRUE), in.adjust),
      dhuhr   |-> Add(Sub(mid_day(in.eqt), in.adjust), Sixtieth(self.method.dhuhr)),
      asr     |-> Sub(sun_angle_time(in.eqt, in.t_asr, FALSE), in.adjust),
      sunset  |-> Sub(sun_angle_time(in.eqt, in.t_sunset, FALSE), in.adjust),
      maghrib |-> Sub(sun_angle_time(in.eqt, in.t_maghrib, FALSE), in.adjust),
      isha    |-> Sub(sun_angle_time(in.eqt, in.t_isha, FALSE), in.adjust) ]

\* prayer.rs:304-312
highlat(self, r) ==
    IF self.high_lats # None
    THEN LET night_time == time_diff(r.sunset, r.sunrise)
         IN  [ r EXCEPT
                 !.imsak   = adjust_highlat_time(self, r.imsak, r.sunrise,
                                 unwrap(self.method.imsak), night_time, TRUE),
                 !.fajr    = adjust_highlat_time(self, r.fajr, r.sunrise,
                                 self.method.fajr, night_time, TRUE),
                 !.maghrib = adjust_highlat_time(self, r.maghrib, r.sunset,
                                 unwrap(self.method.maghrib), night_time, FALSE),
                 !.isha    = adjust_highlat_time(self, r.isha, r.sunset,
                                 unwrap(self.method.isha), night_time, FALSE) ]
    ELSE r

\* the overrides with Imsak taken from Fajr whatever the kind of its parameter
overrides_untagged(self, r) ==
    LET m       == self.method
        imsak   == Sub(r.fajr, Sixtieth(m.imsak.v))
        maghrib == IF m.maghrib.kind = "Minutes"
                   THEN Sub(r.sunset, Sixtieth(m.maghrib.v)) ELSE r.maghrib
        isha    == IF m.isha.kind = "Minutes"
                   THEN Sub(maghrib, Sixtieth(m.isha.v)) ELSE r.isha
    IN  [r EXCEPT !.imsak = imsak, !.maghrib = maghrib, !.isha = isha]

\* prayer.rs:314-322
overrides(self, r) ==
    LET m       == self.method
        imsak   == IF m.imsak.kind = "Minutes"
                   THEN Sub(r.fajr, Sixtieth(m.imsak.v)) ELSE r.imsak
        maghrib == IF m.maghrib.kind = "Minutes"
                   THEN Sub(r.sunset, Sixtieth(m.maghrib.v)) ELSE r.maghrib
        isha    == IF m.isha.kind = "Minutes"
                   THEN Sub(maghrib, Sixtieth(m.isha.v)) ELSE r.isha
    IN  [r EXCEPT !.imsak = imsak, !.maghrib = maghrib, !.isha = isha]

\* prayer.rs:324-340
finish(self, r) ==
    LET midnight == Add(r.sunset,
                        Half(IF self.method.midnight = "Standard"
                             THEN time_diff(r.sunset, r.sunrise)
                             ELSE time_diff(r.sunset, r.fajr)))
    IN  [ imsak |-> r.imsak, fajr |-> r.fajr, sunrise |-> r.sunrise,
          dhuhr |-> r.dhuhr, asr |-> r.asr, sunset |-> r.sunset,
          maghrib |-> r.maghrib, isha |-> r.isha, midnight |-> midnight ]

\* prayer.rs:304-340: everything get_times does after solving
correct(self, r) == finish(self, overrides(self, highlat(self, r)))

get_times(self, in) == correct(self, solve(self, in))

---------------------------------------------------------------------------
(* get_times as a state machine: a manager is constructed, a query arrives, *)
(* get_times answers it                                                     *)

self == [method |-> method, high_lats |-> high_lats]

\* equation of time: 0, and a whole day, which fix_hour must reduce
EqtSet == {0, 24 * One}

\* longitude / 15, for Greenwich and for a longitude of 75 degrees west
AdjustSet == {0, 0 - 5 * One}

\* hour angles of sunrise and sunset; NaN: the sun does not cross the horizon
RiseSetT == {NaN, 5 * One, 7 * One}

\* hour angles of the twilight events; NaN: the sun does not reach the angle
\* the largest hour angle drawn, in hours (an hour angle is at most 12)
MaxT == 11

ImsakT == {NaN, 6 * One, 9 * One}

FajrT == {NaN, 6 * One, 8 * One, MaxT * One}

MaghribT == {NaN, 5 * One, 7 * One}

IshaT == {NaN, 6 * One, 8 * One, MaxT * One}

AsrT == {3 * One}

Inputs ==
    [ eqt : EqtSet, adjust : AdjustSet, t_imsak : ImsakT, t_fajr : FajrT,
      t_sunrise : RiseSetT, t_asr : AsrT, t_sunset : RiseSetT,
      t_maghrib : MaghribT, t_isha : IshaT ]

Options(S) == {None} \cup {Some(x) : x \in S}

NoDate == [year |-> 0, month |-> 0, day |-> 0]

IdlePrayer ==
    /\ method = CalculationMethod_from(180, Angle(170))
    /\ high_lats = None
    /\ query = CHOOSE in \in Inputs : TRUE
    /\ times = None

IdleJulian == date1 = NoDate /\ jd1 = None /\ date2 = NoDate /\ jd2 = None

IdleFix == fx_in = 0 /\ fx_out = None

\* PrayerManager::get_times
GetTimes ==
    /\ times = None
    /\ times' = Some(get_times(self, query))
    /\ UNCHANGED <<method, high_lats, query, date1, jd1, date2, jd2, fx_in, fx_out>>

\* the state after PrayerManager::new(m, hl), with a query at hand
Init ==
    /\ \E m \in CalculationMethods, hl \in Options(HightLatMethods) :
          /\ method = PrayerManager_new(m, hl).method
          /\ high_lats = PrayerManager_new(m, hl).high_lats
    /\ query \in Inputs
    /\ times = None
    /\ IdleJulian
    /\ IdleFix

Next == GetTimes

Spec == Init /\ [][Next]_vars

---------------------------------------------------------------------------
(* get_julian_day as a state machine: two dates are given, each is converted *)

\* the number of consecutive years, from 1999 on, the dates are drawn from
NumYears == 3

Years == 1999..(1998 + NumYears)

\* days at the month ends and starts
DaySet == {1, 28, 29, 30, 31}

IsLeap(y) == (y % 4 = 0 /\ y % 100 # 0) \/ y % 400 = 0

DaysInMonth(y, m) ==
    IF m = 2 THEN (IF IsLeap(y) THEN 29 ELSE 28)
    ELSE IF m \in {4, 6, 9, 11} THEN 30 ELSE 31

Ymd(y, m, d) == [year |-> y, month |-> m, day |-> d]

\* the valid Gregorian dates of the model, and the date of the crate's test
Dates ==
    { dt \in { Ymd(y, m, d) : y \in Years, m \in 1..12, d \in DaySet } :
         dt.day <= DaysInMonth(dt.year, dt.month) }
    \cup { Ymd(2021, 4, 12) }

\* calendar order
Earlier(a, b) ==
    \/ a.year < b.year
    \/ a.year = b.year /\ a.month < b.month
    \/ a.year = b.year /\ a.month = b.month /\ a.day < b.day

JulianDay1 ==
    /\ jd1 = None
    /\ jd1' = Some(get_julian_day(date1))
    /\ UNCHANGED <<method, high_lats, query, times, date1, date2, jd2, fx_in, fx_out>>

JulianDay2 ==
    /\ jd2 = None
    /\ jd2' = Some(get_julian_day(date2))
    /\ UNCHANGED <<method, high_lats, query, times, date1, jd1, date2, fx_in, fx_out>>

InitJulian ==
    /\ date1 \in Dates
    /\ date2 \in Dates
    /\ jd1 = None
    /\ jd2 = None
    /\ IdlePrayer
    /\ IdleFix

NextJulian == JulianDay1 \/ JulianDay2

SpecJulian == InitJulian /\ [][NextJulian]_vars

---------------------------------------------------------------------------
(* fix_hour and fix_angle as a state machine: an argument is given, one of  *)
(* the two functions is applied                                             *)

\* the arguments range over the halves up to MaxValue in magnitude
MaxValue == 400

\* the arguments a few ticks on either side of 0
MaxTiny == 3

FixInputs ==
    { x \in { h * (One \div 2) : h \in (0 - 2 * MaxValue)..(2 * MaxValue) }
            \cup ((0 - MaxTiny)..MaxTiny) : Round(x) = x }

FixHour ==
    /\ fx_out = None
    /\ fx_out' = Some(<<"fix_hour", fix_hour(fx_in)>>)
    /\ UNCHANGED <<method, high_lats, query, times, date1, jd1, date2, jd2, fx_in>>

FixAngle ==
    /\ fx_out = None
    /\ fx_out' = Some(<<"fix_angle", fix_angle(fx_in)>>)
    /\ UNCHANGED <<method, high_lats, query, times, date1, jd1, date2, jd2, fx_in>>

InitFix ==
    /\ fx_in \in FixInputs
    /\ fx_out = None
    /\ IdlePrayer
    /\ IdleJulian

NextFix == FixHour \/ FixAngle

SpecFix == InitFix /\ [][NextFix]_vars

---------------------------------------------------------------------------
(* Properties of get_times *)

\* the result of get_times, once it has been called
T == times[1]

\* the solved times get_times started from
R == solve(self, query)

Called == times # None

Makkah(b) == get_calculation_method([name |-> "Makkah", is_ramadan |-> b])

\* the methods built with the default Imsak and Maghrib parameters
DefaultBuilt ==
    { get_calculation_method([name |-> n]) : n \in {"MWL", "ISNA", "Egypt", "Karachi", "MF"} }
    \cup { Makkah(b) : b \in BOOLEAN }
    \cup { CalculationMethod_from(120, Angle(130)), CalculationMethod_from(0 - 50, Angle(170)) }

\* the night portion as the specification states it: the strategy's fraction
\* (1/2, angle/60, 1/7) of normalize_hour(sunrise - sunset)
StatedPortion(angle) ==
    LET night == fix_hour(Sub(T.sunrise, T.sunset))
    IN  IF IsNaN(night) THEN NaN
        ELSE IF high_lats = Some("NightMiddle") THEN night \div 2
        ELSE IF high_lats = Some("AngleBased") THEN (night \div 600) * angle
        ELSE night \div 7

\* normalize_hour(sunrise - time) for Imsak and Fajr
BeforeSunrise(time) == fix_hour(Sub(T.sunrise, time))

\* normalize_hour(time - sunset) for Maghrib and Isha
AfterSunset(time) == fix_hour(Sub(time, T.sunset))

\* C1: with the Umm al-Qura preset, Isha is 120 minutes (Ramadan) or 90
\* minutes (otherwise) after Maghrib, whenever sunset is finite
C1_IshaAfterMaghrib ==
    \A b \in BOOLEAN :
        (Called /\ method = Makkah(b) /\ ~IsNaN(T.sunset))
            => T.isha = Add(T.maghrib, Sixtieth(IF b THEN 1200 ELSE 900))

\* C2: with a Maghrib parameter Minutes(m), m >= 0, and a finite sunset,
\* sunset <= maghrib
C2_SunsetBeforeMaghrib ==
    (Called /\ method.maghrib.kind = "Minutes" /\ method.maghrib.v >= 0 /\ ~IsNaN(T.sunset))
        => Le(T.sunset, T.maghrib)

\* C3: for a method built with the default Imsak and Maghrib parameters,
\* imsak = fajr - 10/60 and maghrib = sunset on the returned values, with or
\* without a high-latitude strategy, whatever the raw solutions were
C3_DefaultImsakMaghrib ==
    (Called /\ method \in DefaultBuilt)
        => /\ T.imsak = Sub(T.fajr, Sixtieth(100))
           /\ T.maghrib = T.sunset

\* C3 witness: a default-built method, a strategy that replaced a NaN Fajr,
\* and an Imsak ten minutes before that replaced Fajr
C3_Witness ==
    /\ Called
    /\ method = get_calculation_method([name |-> "MWL"])
    /\ high_lats = Some("OneSeventh")
    /\ IsNaN(R.fajr) /\ ~IsNaN(T.fajr)
    /\ ~IsNaN(R.imsak) /\ R.imsak # T.imsak
    /\ T.imsak = T.fajr - 10 * (One \div 60)
    /\ T.maghrib = T.sunset /\ ~IsNaN(T.sunset)

\* every raw solved time is within the allowed night portion of its base
AllWithinPortion ==
    /\ Le(BeforeSunrise(R.imsak), StatedPortion(unwrap(method.imsak)))
    /\ Le(BeforeSunrise(R.fajr), StatedPortion(method.fajr))
    /\ Le(AfterSunset(R.maghrib), StatedPortion(unwrap(method.maghrib)))
    /\ Le(AfterSunset(R.isha), StatedPortion(unwrap(method.isha)))

AngleIsha == method.isha.kind = "Angle"

NaNPropagated ==
    /\ IsNaN(R.fajr) => IsNaN(T.fajr)
    /\ (method.imsak.kind = "Angle" /\ IsNaN(R.imsak)) => IsNaN(T.imsak)
    /\ (method.maghrib.kind = "Angle" /\ IsNaN(R.maghrib)) => IsNaN(T.maghrib)
    /\ (AngleIsha /\ IsNaN(R.isha)) => IsNaN(T.isha)

\* C6 as stated: a NaN angle solution is returned as NaN in every
\* configuration, with or without a high-latitude strategy
C6_NaNPropagatedAlways == Called => NaNPropagated

\* C6 amended: a NaN angle solution is returned as NaN when no high-latitude
\* strategy is configured
C6_NaNPropagatedWithoutStrategy == (Called /\ high_lats = None) => NaNPropagated

\* C6 witness: no strategy, all four events angle-based and without solution,
\* while sunrise and sunset are finite
C6_Witness ==
    /\ Called
    /\ high_lats = None
    /\ method.imsak.kind = "Angle" /\ method.isha.kind = "Angle"
    /\ IsNaN(R.imsak) /\ IsNaN(R.fajr) /\ IsNaN(R.isha)
    /\ IsNaN(T.imsak) /\ IsNaN(T.fajr) /\ IsNaN(T.isha)
    /\ ~IsNaN(T.sunrise) /\ ~IsNaN(T.sunset)

\* the clamp as the specification states it: replaced when night_portion > diff
StatedClamp(time, base, angle, ccw) ==
    LET portion == StatedPortion(angle)
        diff    == IF ccw THEN BeforeSunrise(time) ELSE AfterSunset(time)
    IN  IF Gt(portion, diff)
        THEN (IF ccw THEN Sub(base, portion) ELSE Add(base, portion))
        ELSE time

\* the clamp with the two cases exchanged: kept when night_portion > diff
KeptClamp(time, base, angle, ccw) ==
    LET portion == StatedPortion(angle)
        diff    == IF ccw THEN BeforeSunrise(time) ELSE AfterSunset(time)
    IN  IF Gt(portion, diff)
        THEN time
        ELSE (IF ccw THEN Sub(base, portion) ELSE Add(base, portion))

\* C10 as stated: with a strategy, an angle-based time is replaced by
\* sunrise - night_portion, resp. sunset + night_portion, if night_portion > diff
\* and is the raw solved time otherwise
C10_ReplacedWhenPortionGreater ==
    (Called /\ high_lats # None)
        => /\ T.fajr = StatedClamp(R.fajr, T.sunrise, method.fajr, TRUE)
           /\ method.imsak.kind = "Angle"
                => T.imsak = StatedClamp(R.imsak, T.sunrise, method.imsak.v, TRUE)
           /\ method.maghrib.kind = "Angle"
                => T.maghrib = StatedClamp(R.maghrib, T.sunset, method.maghrib.v, FALSE)
           /\ AngleIsha
                => T.isha = StatedClamp(R.isha, T.sunset, method.isha.v, FALSE)

\* C10 amended: with a strategy, an angle-based time is the raw solved time if
\* night_portion > diff and is replaced by sunrise - night_portion, resp.
\* sunset + night_portion, otherwise (also when the raw time is NaN)
C10_KeptWhenPortionGreater ==
    (Called /\ high_lats # None)
        => /\ T.fajr = KeptClamp(R.fajr, T.sunrise, method.fajr, TRUE)
           /\ method.imsak.kind = "Angle"
                => T.imsak = KeptClamp(R.imsak, T.sunrise, method.imsak.v, TRUE)
           /\ method.maghrib.kind = "Angle"
                => T.maghrib = KeptClamp(R.maghrib, T.sunset, method.maghrib.v, FALSE)
           /\ AngleIsha
                => T.isha = KeptClamp(R.isha, T.sunset, method.isha.v, FALSE)

\* C10 witness: one call in which Fajr was kept (night_portion > diff) and an
\* angle-based Isha was replaced (night_portion < diff)
C10_Witness ==
    /\ Called
    /\ high_lats = Some("NightMiddle")
    /\ AngleIsha
    /\ Gt(StatedPortion(method.fajr), BeforeSunrise(R.fajr))
    /\ T.fajr = R.fajr
    /\ Lt(StatedPortion(method.isha.v), AfterSunset(R.isha))
    /\ T.isha = T.sunset + StatedPortion(method.isha.v)
    /\ T.isha # R.isha

---------------------------------------------------------------------------
(* Properties of get_julian_day *)

\* C7: get_julian_day returns the reference Julian day of a known date:
\* 2451544.5 for 2000-01-01 and 2459316.5 for 2021-04-12 (in half days)
C7_ReferenceJulianDay ==
    /\ (date1 = Ymd(2000, 1, 1) /\ jd1 # None) => jd1[1] = 4903089
    /\ (date1 = Ymd(2021, 4, 12) /\ jd1 # None) => jd1[1] = 4918633

\* C8: for two valid dates, the first earlier than the second in calendar
\* order, get_julian_day of the first is at most that of the second
C8_Monotone ==
    (jd1 # None /\ jd2 # None /\ Earlier(date1, date2)) => jd1[1] <= jd2[1]

\* C8 witness: the leap day of 2000 and the day after it, both converted
C8_Witness ==
    /\ date1 = Ymd(2000, 2, 29) /\ date2 = Ymd(2000, 3, 1)
    /\ jd1 # None /\ jd2 # None
    /\ jd1[1] <= jd2[1]

---------------------------------------------------------------------------
(* Properties of fix *)

\* C9: fix_hour(x) lies in [0, 24) and fix_angle(x) in [0, 360) for every
\* finite x, and applying the function to its result returns that result
C9_InRangeIdempotent ==
    fx_out # None
        => LET base == IF fx_out[1][1] = "fix_hour" THEN 24 * One ELSE 360 * One
               r    == fx_out[1][2]
           IN  /\ 0 <= r
               /\ r < base
               /\ fix(r, base) = r

====
